---- MODULE Spec2Model ----
(***************************************************************************)
(* State-machine model of two pages of the admin frontend:                 *)
(*   - SpotForm  (src/src/pages/spots/SpotForm/index.tsx)                  *)
(*   - Locations (src/src/pages/Locations/index.tsx)                       *)
(* One page is mounted at a time (the router renders one route element).   *)
(* Every action is one event handler, effect or promise continuation,      *)
(* including the re-render and the effects it triggers.                    *)
(***************************************************************************)
EXTENDS Integers, Sequences, FiniteSets, TLC

VARIABLES
    route,          \* which page element is rendered
    mounted,        \* the mount effects of the page have run
    hasSpot,        \* SpotForm prop `spot` is given (edit mode)
    values,         \* react-hook-form field values
    errors,         \* react-hook-form formState.errors (message per field)
    isSubmitted,    \* react-hook-form formState.isSubmitted
    file,           \* prop/state `file`
    states,         \* useState states
    cities,         \* useState cities
    categories,     \* useState categories
    statesPending,  \* StateService.getAll in flight
    categoriesPending, \* CategoryService.getAll in flight
    cityReqs,       \* StateService.getById calls in flight
    citiesRejected, \* some StateService.getById call was rejected
    geoPending,     \* getLocation calls in flight
    statesReqs,     \* number of StateService.getAll calls issued
    categoriesReqs, \* number of CategoryService.getAll calls issued
    citiesReqs,     \* number of StateService.getById calls issued
    cityDisabled,   \* rendered `disabled` prop of the city Select
    page,           \* usePagination page (zero based)
    limit,          \* usePagination limit
    locations,      \* useState locations: the response the rows came from
    meta,           \* useState meta
    locReqs,        \* LocationService.getAll calls in flight
    locReqCount,    \* number of LocationService.getAll calls issued
    ev,             \* the handler that ran in the last step
    toast,          \* toast.error messages emitted by the last step
    unhandled,      \* the last step ended in an unhandled promise rejection
    onSubmitCalls   \* payloads the last step passed to props.onSubmit

vars == <<route, mounted, hasSpot, values, errors, isSubmitted, file,
          states, cities, categories, statesPending, categoriesPending,
          cityReqs, citiesRejected, geoPending, statesReqs, categoriesReqs,
          citiesReqs, cityDisabled, page, limit, locations, meta, locReqs,
          locReqCount, ev, toast, unhandled, onSubmitCalls>>

formVars == <<hasSpot, values, errors, isSubmitted, file, states,
              cities, categories, statesPending, categoriesPending, cityReqs,
              citiesRejected, geoPending, statesReqs, categoriesReqs, citiesReqs, cityDisabled, onSubmitCalls>>

locVars == <<page, limit, locations, meta, locReqs, locReqCount>>

----------------------------------------------------------------------------
(* Bounds of the model *)

MaxCityReqs == 2
MaxGeoPending == 1
MaxLocReqs == 3
MaxPage == 1

----------------------------------------------------------------------------
(* Data *)

Fields == {"name", "state_id", "city_id", "category_id", "preview",
           "latitude", "longitude"}

Empty == ""
NoNum == 999
NoError == ""

LatMin == -90
LatMax == 90

\* Reference data served by the API
AllStates == {"SA", "SB"}
AllCategories == {"k1"}
CitiesOf(s) == IF s = "SA" THEN {"a1"} ELSE IF s = "SB" THEN {"b1"} ELSE {}
AllCities == UNION {CitiesOf(s) : s \in AllStates}

\* The `spot` prop of the edit page
SpotRec == [name |-> "n",
            city |-> [id |-> "a1", state |-> [id |-> "SA"]],
            preview |-> "p0",
            category |-> [id |-> "k1"],
            longitude |-> 0,
            latitude |-> 90]

\* What the user can type or pick
Names == {Empty, "n"}
LatInputs == {-91, 90, 91}
LonInputs == {0}
Files == {"f1", "f2"}
GeoPositions == {[latitude |-> -90, longitude |-> 0]}
RejectValues == {Empty, "boom"}

defaultValues(edit) ==
    [name        |-> IF edit THEN SpotRec.name ELSE Empty,
     city_id     |-> IF edit THEN SpotRec.city.id ELSE Empty,
     state_id    |-> IF edit THEN SpotRec.city.state.id ELSE Empty,
     preview     |-> IF edit THEN SpotRec.preview ELSE Empty,
     category_id |-> IF edit THEN SpotRec.category.id ELSE Empty,
     longitude   |-> IF edit THEN SpotRec.longitude ELSE NoNum,
     latitude    |-> IF edit THEN SpotRec.latitude ELSE NoNum]

----------------------------------------------------------------------------
(* Pure helpers *)

\* toast.error((error as string) ?? fallback)
ToastMessage(error, fallback) == IF error = Empty THEN fallback ELSE error

\* disabled={!stateId}
CityNeverDisabled(stateId) == FALSE
CityDisabled(stateId) == stateId = Empty

\* useEffect(() => { if (stateId) getCities() }, [stateId]):
\* the state ids for which the effect calls getCities after a render
CitiesEffectUnguarded(first, old, new) ==
    IF first \/ new # old THEN {new} ELSE {}
CitiesEffect(first, old, new) ==
    IF (first \/ new # old) /\ new # Empty THEN {new} ELSE {}

\* spotSchema: the message for one field, NoError when the field passes.
\* latitude must be a number in [LatMin, LatMax]
schemaErrorLongitudeRange(f, v) ==
    IF f = "latitude" /\ (v.latitude = NoNum \/ v.latitude < 2 * LatMin
                                             \/ v.latitude > 2 * LatMax)
    THEN "latitude" ELSE NoError
schemaError(f, v) ==
    IF f = "latitude" /\ (v.latitude = NoNum \/ v.latitude < LatMin
                                             \/ v.latitude > LatMax)
    THEN "latitude" ELSE NoError

\* yupResolver(spotSchema): errors per field
resolver(v) == [f \in Fields |-> schemaError(f, v)]

NoErrors == [f \in Fields |-> NoError]

\* validateFile: the message it throws, NoError when it accepts
validateFile(f) == IF f = "f1" THEN NoError ELSE "bad file"

createObjectURL(f) == "blob:" \o f

\* tag of the InputFile change event for file f
FileEvent(f) == "changeFile:" \o f

----------------------------------------------------------------------------
(* Initial state: the page element is constructed, effects have not run *)

Init ==
    /\ route \in {"spots", "locations"}
    /\ mounted = FALSE
    /\ hasSpot \in (IF route = "spots" THEN BOOLEAN ELSE {FALSE})
    /\ values = defaultValues(hasSpot)
    /\ errors = NoErrors
    /\ isSubmitted = FALSE
    /\ file = Empty
    /\ states = {}
    /\ cities = {}
    /\ categories = {}
    /\ statesPending = FALSE
    /\ categoriesPending = FALSE
    /\ cityReqs = {}
    /\ citiesRejected = FALSE
    /\ geoPending = 0
    /\ statesReqs = 0
    /\ categoriesReqs = 0
    /\ citiesReqs = 0
    /\ cityDisabled = CityDisabled(values.state_id)
    /\ page = 0
    /\ limit = 10
    /\ locations = 0
    /\ meta = [from |-> 0, page |-> 0, limit |-> 0, total |-> 0, totalPages |-> 0]
    /\ locReqs = {}
    /\ locReqCount = 0
    /\ ev = "init"
    /\ toast = <<>>
    /\ unhandled = FALSE
    /\ onSubmitCalls = <<>>

----------------------------------------------------------------------------
(* SpotForm *)

\* getCities calls started by the effect for the state ids in `targets`
NewCityReqs(targets) == {[n |-> citiesReqs + 1, id |-> s] : s \in targets}

\* the two mount effects: [stateId] effect, then getCategories(); getStates()
SpotFormMount ==
    /\ route = "spots" /\ ~mounted
    /\ mounted' = TRUE
    /\ LET targets == CitiesEffect(TRUE, values.state_id, values.state_id)
       IN /\ cityReqs' = cityReqs \cup NewCityReqs(targets)
          /\ citiesReqs' = citiesReqs + Cardinality(targets)
    /\ categoriesPending' = TRUE /\ categoriesReqs' = categoriesReqs + 1
    /\ statesPending' = TRUE /\ statesReqs' = statesReqs + 1
    /\ cityDisabled' = CityDisabled(values.state_id)
    /\ ev' = "mount" /\ toast' = <<>> /\ unhandled' = FALSE /\ onSubmitCalls' = <<>>
    /\ UNCHANGED <<route, hasSpot, values, errors, isSubmitted, file,
                   states, cities, categories, geoPending>>
    /\ UNCHANGED <<citiesRejected, locVars>>

\* getStates, after StateService.getAll resolved
getStatesResolve ==
    /\ route = "spots" /\ mounted /\ statesPending
    /\ statesPending' = FALSE
    /\ states' = AllStates
    /\ values' = IF hasSpot
                 THEN [values EXCEPT !.state_id = SpotRec.city.state.id]
                 ELSE values
    /\ LET targets == CitiesEffect(FALSE, values.state_id, values'.state_id)
       IN /\ cityReqs' = cityReqs \cup NewCityReqs(targets)
          /\ citiesReqs' = citiesReqs + Cardinality(targets)
    /\ cityDisabled' = CityDisabled(values'.state_id)
    /\ ev' = "resolve" /\ toast' = <<>> /\ unhandled' = FALSE
    /\ onSubmitCalls' = <<>>
    /\ UNCHANGED <<route, mounted, hasSpot, errors, isSubmitted, file,
                   cities, categories, categoriesPending, geoPending,
                   statesReqs, categoriesReqs>>
    /\ UNCHANGED <<citiesRejected, locVars>>

\* getStates, catch branch
getStatesRejectRetry(error) ==
    /\ route = "spots" /\ mounted /\ statesPending
    /\ statesReqs' = statesReqs + 1
    /\ cityDisabled' = CityDisabled(values.state_id)
    /\ ev' = "getStatesReject"
    /\ toast' = <<ToastMessage(error, "Ocorreu um erro ao listar estados.")>>
    /\ unhandled' = FALSE /\ onSubmitCalls' = <<>>
    /\ UNCHANGED <<route, mounted, hasSpot, values, errors, isSubmitted,
                   file, states, cities, categories, statesPending,
                   categoriesPending, cityReqs, geoPending, categoriesReqs,
                   citiesReqs>>
    /\ UNCHANGED <<citiesRejected, locVars>>
getStatesReject(error) ==
    /\ route = "spots" /\ mounted /\ statesPending
    /\ statesPending' = FALSE
    /\ cityDisabled' = CityDisabled(values.state_id)
    /\ ev' = "getStatesReject"
    /\ toast' = <<ToastMessage(error, "Ocorreu um erro ao listar estados.")>>
    /\ unhandled' = FALSE /\ onSubmitCalls' = <<>>
    /\ UNCHANGED <<route, mounted, hasSpot, values, errors, isSubmitted,
                   file, states, cities, categories, categoriesPending, cityReqs,
                   geoPending, statesReqs, categoriesReqs, citiesReqs>>
    /\ UNCHANGED <<citiesRejected, locVars>>

\* getCategories, after CategoryService.getAll resolved
getCategoriesResolve ==
    /\ route = "spots" /\ mounted /\ categoriesPending
    /\ categoriesPending' = FALSE
    /\ categories' = AllCategories
    /\ cityDisabled' = CityDisabled(values.state_id)
    /\ ev' = "resolve" /\ toast' = <<>> /\ unhandled' = FALSE
    /\ onSubmitCalls' = <<>>
    /\ UNCHANGED <<route, mounted, hasSpot, values, errors, isSubmitted,
                   file, states, cities, statesPending, cityReqs, geoPending,
                   statesReqs, categoriesReqs, citiesReqs>>
    /\ UNCHANGED <<citiesRejected, locVars>>

\* getCategories, catch branch
getCategoriesReject(error) ==
    /\ route = "spots" /\ mounted /\ categoriesPending
    /\ categoriesPending' = FALSE
    /\ cityDisabled' = CityDisabled(values.state_id)
    /\ ev' = "getCategoriesReject"
    /\ toast' = <<ToastMessage(error, "Ocorreu um erro ao listar categorias.")>>
    /\ unhandled' = FALSE /\ onSubmitCalls' = <<>>
    /\ UNCHANGED <<route, mounted, hasSpot, values, errors, isSubmitted,
                   file, states, cities, categories, statesPending, cityReqs,
                   geoPending, statesReqs, categoriesReqs, citiesReqs>>
    /\ UNCHANGED <<citiesRejected, locVars>>

\* getCities, after StateService.getById(stateId) resolved: data.cities are the
\* cities of the state id the call was made with
getCitiesResolve(r) ==
    /\ route = "spots" /\ mounted /\ r \in cityReqs
    /\ cityReqs' = cityReqs \ {r}
    /\ cities' = CitiesOf(r.id)
    /\ cityDisabled' = CityDisabled(values.state_id)
    /\ ev' = "resolve" /\ toast' = <<>> /\ unhandled' = FALSE
    /\ onSubmitCalls' = <<>>
    /\ UNCHANGED <<route, mounted, hasSpot, values, errors, isSubmitted,
                   file, states, categories, statesPending, categoriesPending,
                   geoPending, statesReqs, categoriesReqs, citiesReqs>>
    /\ UNCHANGED <<citiesRejected, locVars>>

\* getCities, catch branch
getCitiesReject(r, error) ==
    /\ route = "spots" /\ mounted /\ r \in cityReqs
    /\ cityReqs' = cityReqs \ {r}
    /\ citiesRejected' = TRUE
    /\ cityDisabled' = CityDisabled(values.state_id)
    /\ ev' = "getCitiesReject"
    /\ toast' = <<ToastMessage(error, "Ocorreu um erro ao listar cidades.")>>
    /\ unhandled' = FALSE /\ onSubmitCalls' = <<>>
    /\ UNCHANGED <<route, mounted, hasSpot, values, errors, isSubmitted,
                   file, states, cities, categories, statesPending,
                   categoriesPending, geoPending, statesReqs, categoriesReqs,
                   citiesReqs>>
    /\ UNCHANGED locVars

\* <Button onClick={() => getCurrentLocation()}>: the call to getLocation()
clickCurrentLocation ==
    /\ route = "spots" /\ mounted /\ geoPending < MaxGeoPending
    /\ geoPending' = geoPending + 1
    /\ cityDisabled' = CityDisabled(values.state_id)
    /\ ev' = "change" /\ toast' = <<>> /\ unhandled' = FALSE
    /\ onSubmitCalls' = <<>>
    /\ UNCHANGED <<route, mounted, hasSpot, values, errors, isSubmitted,
                   file, states, cities, categories, statesPending,
                   categoriesPending, cityReqs, statesReqs, categoriesReqs,
                   citiesReqs>>
    /\ UNCHANGED <<citiesRejected, locVars>>

\* getCurrentLocation, after getLocation() resolved
getCurrentLocationResolve(pos) ==
    /\ route = "spots" /\ mounted /\ geoPending > 0
    /\ geoPending' = geoPending - 1
    /\ values' = [values EXCEPT !.latitude = pos.latitude,
                                !.longitude = pos.longitude]
    /\ cityDisabled' = CityDisabled(values'.state_id)
    /\ ev' = "resolve" /\ toast' = <<>> /\ unhandled' = FALSE
    /\ onSubmitCalls' = <<>>
    /\ UNCHANGED <<route, mounted, hasSpot, errors, isSubmitted, file,
                   states, cities, categories, statesPending, categoriesPending,
                   cityReqs, statesReqs, categoriesReqs, citiesReqs>>
    /\ UNCHANGED <<citiesRejected, locVars>>

\* getCurrentLocation, catch branch
getCurrentLocationReject(error) ==
    /\ route = "spots" /\ mounted /\ geoPending > 0
    /\ geoPending' = geoPending - 1
    /\ cityDisabled' = CityDisabled(values.state_id)
    /\ ev' = "getCurrentLocationReject"
    /\ toast' = <<ToastMessage(error, "Ocorreu um erro ao buscar localização.")>>
    /\ unhandled' = FALSE /\ onSubmitCalls' = <<>>
    /\ UNCHANGED <<route, mounted, hasSpot, values, errors, isSubmitted,
                   file, states, cities, categories, statesPending,
                   categoriesPending, cityReqs, statesReqs, categoriesReqs,
                   citiesReqs>>
    /\ UNCHANGED <<citiesRejected, locVars>>

----------------------------------------------------------------------------
(* SpotForm: user events *)

\* useForm without `mode`: after the first submit a change event of a field
\* re-runs the resolver for that field
revalidate(f, v) ==
    IF isSubmitted THEN [errors EXCEPT ![f] = schemaError(f, v)]
    ELSE errors

\* {...register("name")}: typing in the name input
changeName(n) ==
    /\ route = "spots" /\ mounted /\ n # values.name
    /\ values' = [values EXCEPT !.name = n]
    /\ errors' = revalidate("name", values')
    /\ cityDisabled' = CityDisabled(values'.state_id)
    /\ ev' = "change" /\ toast' = <<>> /\ unhandled' = FALSE
    /\ onSubmitCalls' = <<>>
    /\ UNCHANGED <<route, mounted, hasSpot, isSubmitted, file, states,
                   cities, categories, statesPending, categoriesPending,
                   cityReqs, geoPending, statesReqs, categoriesReqs, citiesReqs>>
    /\ UNCHANGED <<citiesRejected, locVars>>

\* {...register("latitude")}: typing in the latitude input
changeLatitude(x) ==
    /\ route = "spots" /\ mounted /\ x # values.latitude
    /\ values' = [values EXCEPT !.latitude = x]
    /\ errors' = revalidate("latitude", values')
    /\ cityDisabled' = CityDisabled(values'.state_id)
    /\ ev' = "change" /\ toast' = <<>> /\ unhandled' = FALSE
    /\ onSubmitCalls' = <<>>
    /\ UNCHANGED <<route, mounted, hasSpot, isSubmitted, file, states,
                   cities, categories, statesPending, categoriesPending,
                   cityReqs, geoPending, statesReqs, categoriesReqs, citiesReqs>>
    /\ UNCHANGED <<citiesRejected, locVars>>

\* {...register("longitude")}: typing in the longitude input
changeLongitude(x) ==
    /\ route = "spots" /\ mounted /\ x # values.longitude
    /\ values' = [values EXCEPT !.longitude = x]
    /\ errors' = revalidate("longitude", values')
    /\ cityDisabled' = CityDisabled(values'.state_id)
    /\ ev' = "change" /\ toast' = <<>> /\ unhandled' = FALSE
    /\ onSubmitCalls' = <<>>
    /\ UNCHANGED <<route, mounted, hasSpot, isSubmitted, file, states,
                   cities, categories, statesPending, categoriesPending,
                   cityReqs, geoPending, statesReqs, categoriesReqs, citiesReqs>>
    /\ UNCHANGED <<citiesRejected, locVars>>

\* state Select onValueChange={field.onChange}, then the [stateId] effect
changeState(s) ==
    /\ route = "spots" /\ mounted
    /\ s \in states /\ s # values.state_id
    /\ citiesReqs < MaxCityReqs
    /\ values' = [values EXCEPT !.state_id = s]
    /\ errors' = revalidate("state_id", values')
    /\ LET targets == CitiesEffect(FALSE, values.state_id, values'.state_id)
       IN /\ cityReqs' = cityReqs \cup NewCityReqs(targets)
          /\ citiesReqs' = citiesReqs + Cardinality(targets)
    /\ cityDisabled' = CityDisabled(values'.state_id)
    /\ ev' = "change" /\ toast' = <<>> /\ unhandled' = FALSE
    /\ onSubmitCalls' = <<>>
    /\ UNCHANGED <<route, mounted, hasSpot, isSubmitted, file, states,
                   cities, categories, statesPending, categoriesPending,
                   geoPending, statesReqs, categoriesReqs>>
    /\ UNCHANGED <<citiesRejected, locVars>>

\* city Select onValueChange={field.onChange}; the Select is inert while disabled
changeCity(c) ==
    /\ route = "spots" /\ mounted
    /\ ~cityDisabled
    /\ c \in cities /\ c # values.city_id
    /\ values' = [values EXCEPT !.city_id = c]
    /\ errors' = revalidate("city_id", values')
    /\ cityDisabled' = CityDisabled(values'.state_id)
    /\ ev' = "change" /\ toast' = <<>> /\ unhandled' = FALSE
    /\ onSubmitCalls' = <<>>
    /\ UNCHANGED <<route, mounted, hasSpot, isSubmitted, file, states,
                   cities, categories, statesPending, categoriesPending,
                   cityReqs, geoPending, statesReqs, categoriesReqs, citiesReqs>>
    /\ UNCHANGED <<citiesRejected, locVars>>

\* category Select onValueChange={field.onChange}
changeCategory(k) ==
    /\ route = "spots" /\ mounted
    /\ k \in categories /\ k # values.category_id
    /\ values' = [values EXCEPT !.category_id = k]
    /\ errors' = revalidate("category_id", values')
    /\ cityDisabled' = CityDisabled(values'.state_id)
    /\ ev' = "change" /\ toast' = <<>> /\ unhandled' = FALSE
    /\ onSubmitCalls' = <<>>
    /\ UNCHANGED <<route, mounted, hasSpot, isSubmitted, file, states,
                   cities, categories, statesPending, categoriesPending,
                   cityReqs, geoPending, statesReqs, categoriesReqs, citiesReqs>>
    /\ UNCHANGED <<citiesRejected, locVars>>

\* InputFile onChange: try { validateFile; setFile; setValue; clearErrors }
\* catch { setError; setFile(undefined) }
changeFileKeepError(f) ==
    /\ route = "spots" /\ mounted
    /\ LET thrown == validateFile(f)
       IN IF thrown = NoError
          THEN /\ file' = f
               /\ values' = [values EXCEPT !.preview = createObjectURL(f)]
               /\ errors' = errors
          ELSE /\ errors' = [errors EXCEPT !["preview"] = thrown]
               /\ file' = Empty
               /\ values' = values
    /\ cityDisabled' = CityDisabled(values'.state_id)
    /\ ev' = FileEvent(f) /\ toast' = <<>> /\ unhandled' = FALSE
    /\ onSubmitCalls' = <<>>
    /\ UNCHANGED <<route, mounted, hasSpot, isSubmitted, states,
                   cities, categories, statesPending, categoriesPending,
                   cityReqs, geoPending, statesReqs, categoriesReqs, citiesReqs>>
    /\ UNCHANGED <<citiesRejected, locVars>>
changeFile(f) ==
    /\ route = "spots" /\ mounted
    /\ LET thrown == validateFile(f)
       IN IF thrown = NoError
          THEN /\ file' = f
               /\ values' = [values EXCEPT !.preview = createObjectURL(f)]
               /\ errors' = [errors EXCEPT !["preview"] = NoError]
          ELSE /\ errors' = [errors EXCEPT !["preview"] = thrown]
               /\ file' = Empty
               /\ values' = values
    /\ cityDisabled' = CityDisabled(values'.state_id)
    /\ ev' = FileEvent(f) /\ toast' = <<>> /\ unhandled' = FALSE
    /\ onSubmitCalls' = <<>>
    /\ UNCHANGED <<route, mounted, hasSpot, isSubmitted, states,
                   cities, categories, statesPending, categoriesPending,
                   cityReqs, geoPending, statesReqs, categoriesReqs, citiesReqs>>
    /\ UNCHANGED <<citiesRejected, locVars>>

\* <form onSubmit={handleSubmit(onSubmit)}>: run the resolver on the current
\* values, store its errors, call onSubmit when there are none
submitDefaults ==
    /\ route = "spots" /\ mounted
    /\ isSubmitted' = TRUE
    /\ errors' = resolver(values)
    /\ onSubmitCalls' = IF errors' = NoErrors THEN <<defaultValues(hasSpot)>> ELSE <<>>
    /\ cityDisabled' = CityDisabled(values.state_id)
    /\ ev' = "submit" /\ toast' = <<>> /\ unhandled' = FALSE
    /\ UNCHANGED <<route, mounted, hasSpot, values, file, states,
                   cities, categories, statesPending, categoriesPending,
                   cityReqs, geoPending, statesReqs, categoriesReqs, citiesReqs>>
    /\ UNCHANGED <<citiesRejected, locVars>>
submit ==
    /\ route = "spots" /\ mounted
    /\ isSubmitted' = TRUE
    /\ errors' = resolver(values)
    /\ onSubmitCalls' = IF errors' = NoErrors THEN <<values>> ELSE <<>>
    /\ cityDisabled' = CityDisabled(values.state_id)
    /\ ev' = "submit" /\ toast' = <<>> /\ unhandled' = FALSE
    /\ UNCHANGED <<route, mounted, hasSpot, values, file, states,
                   cities, categories, statesPending, categoriesPending,
                   cityReqs, geoPending, statesReqs, categoriesReqs, citiesReqs>>
    /\ UNCHANGED <<citiesRejected, locVars>>

----------------------------------------------------------------------------
(* Locations *)

TotalPagesValues == {1, 2}
Limits == {10, 20}

\* LocationService.getAll({ page: page + 1, limit })
getAllParams(n, p, l) == [n |-> n, page |-> p + 1, limit |-> l]

\* the body of the API response to request r
locResponse(r, tp) ==
    [data |-> r.n,
     meta |-> [from |-> r.n, page |-> r.page, limit |-> r.limit,
               total |-> tp * r.limit, totalPages |-> tp]]

\* pageCount: meta.totalPages
pageCount == meta.totalPages

\* useEffect(() => { getLocations() }, [page, limit]) at mount
LocationsMount ==
    /\ route = "locations" /\ ~mounted
    /\ mounted' = TRUE
    /\ locReqs' = locReqs \cup {getAllParams(locReqCount + 1, page, limit)}
    /\ locReqCount' = locReqCount + 1
    /\ ev' = "mount" /\ toast' = <<>> /\ unhandled' = FALSE
    /\ UNCHANGED <<route, page, limit, locations, meta>>
    /\ UNCHANGED formVars

\* onPaginationChange of the table, then the [page, limit] effect
onPaginationChange(p, l) ==
    /\ route = "locations" /\ mounted
    /\ p # page \/ l # limit
    /\ locReqCount < MaxLocReqs
    /\ page' = p /\ limit' = l
    /\ locReqs' = locReqs \cup {getAllParams(locReqCount + 1, p, l)}
    /\ locReqCount' = locReqCount + 1
    /\ ev' = "onPaginationChange" /\ toast' = <<>> /\ unhandled' = FALSE
    /\ UNCHANGED <<route, mounted, locations, meta>>
    /\ UNCHANGED formVars

\* getLocations, after LocationService.getAll resolved:
\* setLocations(z.array(locationSchema).parse(data.data)); setMeta(data.meta)
getLocationsResolveMetaFirst(r, valid, tp) ==
    /\ route = "locations" /\ mounted /\ r \in locReqs
    /\ locReqs' = locReqs \ {r}
    /\ meta' = locResponse(r, tp).meta
    /\ IF valid
       THEN /\ locations' = locResponse(r, tp).data
            /\ unhandled' = FALSE
       ELSE /\ locations' = locations
            /\ unhandled' = TRUE
    /\ ev' = IF valid THEN "getLocationsResolve" ELSE "getLocationsParseError"
    /\ toast' = <<>>
    /\ UNCHANGED <<route, mounted, page, limit, locReqCount>>
    /\ UNCHANGED formVars
getLocationsResolve(r, valid, tp) ==
    /\ route = "locations" /\ mounted /\ r \in locReqs
    /\ locReqs' = locReqs \ {r}
    /\ IF valid
       THEN /\ locations' = locResponse(r, tp).data
            /\ meta' = locResponse(r, tp).meta
            /\ unhandled' = FALSE
       ELSE /\ locations' = locations
            /\ meta' = meta
            /\ unhandled' = TRUE
    /\ ev' = IF valid THEN "getLocationsResolve" ELSE "getLocationsParseError"
    /\ toast' = <<>>
    /\ UNCHANGED <<route, mounted, page, limit, locReqCount>>
    /\ UNCHANGED formVars

\* getLocations, when LocationService.getAll rejects: nothing catches it
getLocationsReject(r) ==
    /\ route = "locations" /\ mounted /\ r \in locReqs
    /\ locReqs' = locReqs \ {r}
    /\ ev' = "getLocationsReject" /\ toast' = <<>> /\ unhandled' = TRUE
    /\ UNCHANGED <<route, mounted, page, limit, locations, meta, locReqCount>>
    /\ UNCHANGED formVars

----------------------------------------------------------------------------
(* Specification *)

Next ==
    \/ SpotFormMount
    \/ getStatesResolve
    \/ \E e \in RejectValues : getStatesReject(e)
    \/ getCategoriesResolve
    \/ \E e \in RejectValues : getCategoriesReject(e)
    \/ \E r \in cityReqs : getCitiesResolve(r)
    \/ \E r \in cityReqs, e \in RejectValues : getCitiesReject(r, e)
    \/ clickCurrentLocation
    \/ \E pos \in GeoPositions : getCurrentLocationResolve(pos)
    \/ \E e \in RejectValues : getCurrentLocationReject(e)
    \/ \E n \in Names : changeName(n)
    \/ \E x \in LatInputs : changeLatitude(x)
    \/ \E x \in LonInputs : changeLongitude(x)
    \/ \E s \in AllStates : changeState(s)
    \/ \E c \in AllCities : changeCity(c)
    \/ \E k \in AllCategories : changeCategory(k)
    \/ \E f \in Files : changeFile(f)
    \/ submit
    \/ LocationsMount
    \/ \E p \in 0..MaxPage, l \in Limits : onPaginationChange(p, l)
    \/ \E r \in locReqs, valid \in BOOLEAN, tp \in TotalPagesValues :
          getLocationsResolve(r, valid, tp)
    \/ \E r \in locReqs : getLocationsReject(r)

Spec == Init /\ [][Next]_vars

----------------------------------------------------------------------------
(* Properties *)

RejectEvents == {"getStatesReject", "getCategoriesReject", "getCitiesReject",
                 "getCurrentLocationReject", "getLocationsReject",
                 "getLocationsParseError"}

OutOfRange(x) == x # NoNum /\ (x < LatMin \/ x > LatMax)

\* C1: a submit event calls onSubmit exactly once, with the current form
\* values as payload, when the resolver accepts them, and does not call it
\* when the resolver rejects them.
C1_SubmitForwardsPayload ==
    ev = "submit" =>
        onSubmitCalls = IF resolver(values) = NoErrors THEN <<values>> ELSE <<>>

C1_Witness ==
    /\ ev = "submit" /\ Len(onSubmitCalls) = 1
    /\ ~hasSpot /\ values.state_id = "SB" /\ values.city_id = "b1"

\* C2: a submit while latitude holds a value outside [-90, 90] does not call
\* onSubmit and records an error on the latitude field.
C2_LatitudeOutOfRangeRejected ==
    (ev = "submit" /\ OutOfRange(values.latitude)) =>
        (onSubmitCalls = <<>> /\ errors["latitude"] # NoError)

C2_Witness ==
    ev = "submit" /\ values.latitude = 91 /\ errors["latitude"] # NoError

\* C3: the city Select is disabled exactly when state_id is empty.
C3_CityDisabledIffNoState ==
    route = "spots" => (cityDisabled <=> values.state_id = Empty)

C3_Witness ==
    ~hasSpot /\ mounted /\ values.state_id # Empty /\ ~cityDisabled

\* C4: every rejected network call, or failure while handling its response,
\* ends in exactly one toast.error, never in an unhandled rejection, and
\* leaves the lists the action would have set unchanged.
C4_ErrorsCaughtAndToasted ==
    [][ev' \in RejectEvents =>
          /\ Len(toast') = 1
          /\ ~unhandled'
          /\ states' = states /\ cities' = cities /\ categories' = categories
          /\ locations' = locations /\ meta' = meta]_vars

\* C5: states and categories are requested exactly once, at mount; a cities
\* request is issued exactly when state_id becomes a new non-empty value (or
\* is non-empty at mount), with that state id, and never with an empty one.
C5_ReferenceListRequests ==
    [][route = "spots" =>
          /\ statesReqs' = (IF mounted' THEN 1 ELSE 0)
          /\ categoriesReqs' = (IF mounted' THEN 1 ELSE 0)
          /\ (citiesReqs' # citiesReqs) <=>
                 /\ values'.state_id # Empty
                 /\ (~mounted \/ values'.state_id # values.state_id)
          /\ (citiesReqs' # citiesReqs) =>
                 /\ citiesReqs' = citiesReqs + 1
                 /\ cityReqs' \ cityReqs =
                        {[n |-> citiesReqs', id |-> values'.state_id]}
          /\ \A r \in cityReqs' : r.id # Empty]_vars

C5_Witness ==
    /\ ~hasSpot /\ citiesReqs = 2 /\ statesReqs = 1 /\ categoriesReqs = 1
    /\ values.state_id = "SA"

\* C6: a file selection that validateFile rejects leaves the thrown message
\* as the error of 'preview' and the file undefined; one it accepts sets the
\* file, sets 'preview' to its object URL and clears the 'preview' error;
\* no other field's value or error changes.
C6_FileSelection ==
    [][\A f \in Files : ev' = FileEvent(f) =>
          /\ IF validateFile(f) = NoError
             THEN /\ file' = f
                  /\ values'.preview = createObjectURL(f)
                  /\ errors'["preview"] = NoError
             ELSE /\ file' = Empty
                  /\ errors'["preview"] = validateFile(f)
          /\ \A g \in Fields \ {"preview"} :
                 values'[g] = values[g] /\ errors'[g] = errors[g]]_vars

C6_Witness ==
    /\ ev = FileEvent("f1") /\ file = "f1" /\ errors["preview"] = NoError
    /\ errors["latitude"] # NoError

\* C7: a failed request is not re-issued: a failure step starts no request,
\* and requests start only at mount or (cities) when state_id changes or
\* (locations) when page or limit changes.
C7_NoRetry ==
    [][/\ ev' \in RejectEvents =>
             /\ statesReqs' = statesReqs
             /\ categoriesReqs' = categoriesReqs
             /\ citiesReqs' = citiesReqs
             /\ locReqCount' = locReqCount
             /\ cityReqs' \subseteq cityReqs
             /\ locReqs' \subseteq locReqs
             /\ statesPending' => statesPending
             /\ categoriesPending' => categoriesPending
       /\ (citiesReqs' # citiesReqs) =>
             (~mounted \/ values'.state_id # values.state_id)
       /\ (locReqCount' # locReqCount) =>
             (~mounted \/ page' # page \/ limit' # limit)
       /\ (statesReqs' # statesReqs \/ categoriesReqs' # categoriesReqs) =>
             ~mounted]_vars

C7_Witness ==
    /\ ev = "getStatesReject" /\ ~statesPending /\ states = {}
    /\ citiesRejected /\ cityReqs = {}

\* C8: once every getCities call has settled successfully, the cities list
\* is the list of the currently selected state.
C8_CitiesOfSelectedState ==
    (/\ route = "spots" /\ mounted
     /\ values.state_id # Empty
     /\ cityReqs = {} /\ ~citiesRejected) =>
        cities = CitiesOf(values.state_id)

\* C9: whenever state_id and city_id both hold a value, the city belongs to
\* the state; so does every payload passed to onSubmit.
C9_CityBelongsToState ==
    /\ (values.state_id # Empty /\ values.city_id # Empty) =>
           values.city_id \in CitiesOf(values.state_id)
    /\ \A i \in 1..Len(onSubmitCalls) :
           (onSubmitCalls[i].state_id # Empty /\ onSubmitCalls[i].city_id # Empty)
               => onSubmitCalls[i].city_id \in CitiesOf(onSubmitCalls[i].state_id)

\* C10: a change of page or limit issues getAll with page + 1 and the limit;
\* rows and meta always come from the same response: a response whose rows
\* pass the schema sets both, one whose rows fail sets neither.
C10_RowsAndMetaFromSameResponse ==
    [][route = "locations" =>
          /\ (page' # page \/ limit' # limit) =>
                 locReqs' \ locReqs =
                     {[n |-> locReqCount', page |-> page' + 1, limit |-> limit']}
          /\ locations' = meta'.from
          /\ ev' = "getLocationsParseError" =>
                 (locations' = locations /\ meta' = meta)
          /\ ev' = "getLocationsResolve" =>
                 \E r \in locReqs :
                     /\ locations' = r.n
                     /\ meta'.from = r.n
                     /\ meta'.page = r.page /\ meta'.limit = r.limit]_vars

C10_Witness ==
    /\ ev = "getLocationsParseError" /\ locations # 0 /\ meta.from = locations
    /\ page = 1 /\ pageCount = 2

====
